---- MODULE Spec2Model ----
(***************************************************************************)
(* The VCT alert bot: the settings document (services/storage.py), the     *)
(* provider conversions and the resolver (services/providers/*.py,         *)
(* services/matches.py) and the alert poller (services/alerts.py), with    *)
(* the configuration commands (cogs/admin.py, cogs/settings.py) running    *)
(* between the poller's await points.                                      *)
(*                                                                         *)
(* Time is counted in whole minutes.  An optional value (a dict key that   *)
(* may be missing, a function that may return None) is a set with at most  *)
(* one element: {} is "missing"/None.                                      *)
(***************************************************************************)
EXTENDS Integers, Sequences, FiniteSets, Bags, TLC

\* ------------------------------------------------------------------ bounds
MaxClock == 10
ClockStep == 5
MaxCmds == 1
MaxTicks == 2

\* ------------------------------------------------------- program constants
DEFAULT_LEAD_MINUTES == 30
MIN_LEAD == 5
MAX_LEAD == 180
MOCK_LIVE_OFFSET == 15
MOCK_SCHEDULED_OFFSET == 120

\* ------------------------------------------------------------- environment
\* bot.guilds, in iteration order, and the text channel each command is run in
Guilds == <<1, 2>>
GuildIds == {Guilds[i] : i \in 1..Len(Guilds)}
ChannelOf(g) == 10 * g
\* the guilds whose operators run commands (and lose channels) in the window
\* modelled; the other guilds keep the configuration they start with
CommandGuilds == {Guilds[1]}

\* what the operators type into /vct_settings_lead
LeadInputs == {1, 500}

Providers == <<"official", "henrikdev", "vlrggapi", "vlresports">>
ProviderSet == {Providers[i] : i \in 1..Len(Providers)}

\* The real matches behind the feeds: team names, real start (minute), the
\* canonical tournament of the feed's label, and the id the sources carry
\* for it ({} when the sources carry none).
RealMatches == <<
    [team1 |-> "G2 Esports", team2 |-> "T1",  start |-> 35, tournament |-> "VCT Masters",
     srcid |-> {"m1"}],
    [team1 |-> "Cloud9",     team2 |-> "NRG", start |-> 5,  tournament |-> "VCT Americas",
     srcid |-> {}] >>
RealIdx == 1..Len(RealMatches)

\* The state the feeds report for each match ("unstarted", "inProgress",
\* "completed") in the tick they are read: every match unstarted, or one of
\* them in progress or completed.
FeedVectors ==
    {[r \in RealIdx |-> "unstarted"]} \cup
    {[r \in RealIdx |-> IF r = q THEN st ELSE "unstarted"] :
        q \in RealIdx, st \in {"inProgress", "completed"}}

Opt(s) == CHOOSE v \in s : TRUE

\* ------------------------------------------------------------ storage.py
\* data.setdefault(str(guild_id), {})
EmptyEntry == [alert_channel_id |-> {}, lead_minutes |-> {}, event_enabled |-> {},
               alerts_sent |-> {}, events_created |-> {}]
_guild(data, g) == IF g \in DOMAIN data THEN data ELSE (g :> EmptyEntry) @@ data
\* data.get(str(guild_id), {})
GetEntry(data, g) == IF g \in DOMAIN data THEN data[g] ELSE EmptyEntry

set_alert_channel(data, g, c) ==
    [_guild(data, g) EXCEPT ![g].alert_channel_id = {c}]
get_alert_channel_Any(data, g) == {ChannelOf(g)}
get_alert_channel(data, g) == GetEntry(data, g).alert_channel_id

mark_alert_sent_NoWrite(data, g, mid) == data
mark_alert_sent_FreshEntry(data, g, mid) ==
    (g :> [EmptyEntry EXCEPT !.alerts_sent = {mid}]) @@ data
mark_alert_sent(data, g, mid) ==
    [_guild(data, g) EXCEPT ![g].alerts_sent = @ \cup {mid}]
was_alert_sent_Never(data, g, mid) == FALSE
was_alert_sent(data, g, mid) == mid \in GetEntry(data, g).alerts_sent

mark_event_created(data, g, mid) ==
    [_guild(data, g) EXCEPT ![g].events_created = @ \cup {mid}]
was_event_created(data, g, mid) == mid \in GetEntry(data, g).events_created

get_lead_minutes(data, g, default) ==
    LET v == GetEntry(data, g).lead_minutes IN IF v = {} THEN default ELSE Opt(v)
Max(a, b) == IF a >= b THEN a ELSE b
Min(a, b) == IF a <= b THEN a ELSE b
set_lead_minutes_NoClamp(data, g, minutes) ==
    [_guild(data, g) EXCEPT ![g].lead_minutes = {minutes}]
set_lead_minutes(data, g, minutes) ==
    [_guild(data, g) EXCEPT ![g].lead_minutes = {Max(MIN_LEAD, Min(MAX_LEAD, minutes))}]

is_event_enabled_Always(data, g, default) == TRUE
is_event_enabled(data, g, default) ==
    LET v == GetEntry(data, g).event_enabled IN IF v = {} THEN default ELSE Opt(v)
set_event_enabled_FreshEntry(data, g, enabled) ==
    (g :> [EmptyEntry EXCEPT !.event_enabled = {enabled}]) @@ data
set_event_enabled(data, g, enabled) ==
    [_guild(data, g) EXCEPT ![g].event_enabled = {enabled}]

\* ------------------------------------------------------------- matches.py
\* @dataclass Match (stage and best_of are display text only)
Match(id, tournament, team1, team2, start_time, status) ==
    [id |-> id, tournament |-> tournament, team1 |-> team1, team2 |-> team2,
     start_time |-> start_time, status |-> status]

VCT_TOURNAMENTS == {"VCT Americas", "VCT Masters", "VCT Champions"}

IsLive(m) == m.status = "LIVE"
NotLive(m) == m.status # "LIVE"
InScope(m) == m.tournament \in VCT_TOURNAMENTS

\* sorted(..., key=lambda m: m.start_time): stable
RECURSIVE InsertByStart(_, _)
InsertByStart(m, s) ==
    IF s = <<>> THEN <<m>>
    ELSE IF m.start_time <= Head(s).start_time THEN <<m>> \o s
    ELSE <<Head(s)>> \o InsertByStart(m, Tail(s))
RECURSIVE SortByStart(_)
SortByStart(s) == IF s = <<>> THEN <<>> ELSE InsertByStart(Head(s), SortByStart(Tail(s)))

\* live + sorted(upcoming)
LiveFirst(s) == SelectSeq(s, IsLive) \o SortByStart(SelectSeq(s, NotLive))
\* s[:n]
Take_All(s, n) == s
Take(s, n) == SubSeq(s, 1, Min(n, Len(s)))

\* f"{team1}-vs-{team2}-{int(start.timestamp())}"
DerivedId(team1, team2, start) == team1 \o "-vs-" \o team2 \o "-" \o ToString(start)
\* a or b, on strings
StrOr(a, b) == IF a # "" THEN a ELSE b
\* str(x) of an optional id: str(None) is the non-empty text "None"
PyStr(x) == IF x = {} THEN "None" ELSE Opt(x)
\* str(x or b)
IdOr(x, b) == IF x # {} THEN Opt(x) ELSE b

\* ------------------------------------- providers: labels, times and states
\* A label is the sequence of its words.  `tok in label.lower()` is taken
\* word by word: a one-word token is in the label when one of its words
\* lowers to it, a two-word token when two adjacent words do.
Lower(w) ==
    CASE w \in {"Champions", "CHAMPIONS"} -> "champions"
      [] w = "Tour" -> "tour"
      [] w \in {"Masters", "MASTERS"} -> "masters"
      [] w = "Americas" -> "americas"
      [] w = "VCT" -> "vct"
      [] w = "VALORANT" -> "valorant"
      [] OTHER -> w
Has(label, tok) == \E i \in DOMAIN label : Lower(label[i]) = tok
HasPair(label, a, b) ==
    \E i \in DOMAIN label : i < Len(label) /\ Lower(label[i]) = a /\ Lower(label[i + 1]) = b

\* valorant_official.py _canon_tournament: {} is None
OfficialCanonTournament(label) ==
    IF Has(label, "champions") THEN {"VCT Champions"}
    ELSE IF Has(label, "masters") THEN {"VCT Masters"}
    ELSE IF Has(label, "americas") /\ Has(label, "vct") THEN {"VCT Americas"}
    ELSE {}

\* henrikdev.py LEAGUE_NAME and _convert._canon_tournament(league_id, league_name)
LEAGUE_NAME == [vct_americas |-> "VCT Americas", masters |-> "VCT Masters",
                champions |-> "VCT Champions"]
HenrikCanonTournament(league_id, label) ==
    IF league_id # {} /\ Opt(league_id) \in DOMAIN LEAGUE_NAME THEN {LEAGUE_NAME[Opt(league_id)]}
    ELSE IF Has(label, "americas") /\ Has(label, "vct") THEN {"VCT Americas"}
    ELSE IF Has(label, "masters") THEN {"VCT Masters"}
    ELSE IF Has(label, "champions") THEN {"VCT Champions"}
    ELSE {}

\* vlrggapi.py _canon_tournament
VlrggCanonTournament(label) ==
    IF Has(label, "champions") /\ ~HasPair(label, "champions", "tour") THEN {"VCT Champions"}
    ELSE IF Has(label, "masters") THEN {"VCT Masters"}
    ELSE IF HasPair(label, "champions", "tour") /\ Has(label, "americas") THEN {"VCT Americas"}
    ELSE {}

\* vlresports.py _canon_tournament(event, tournament), the item's
\* tournament text being empty: the blob is the event label
VlresportsCanonTournament(label) ==
    IF HasPair(label, "valorant", "champions") THEN {"VCT Champions"}
    ELSE IF Has(label, "masters") THEN {"VCT Masters"}
    ELSE IF HasPair(label, "champions", "tour") /\ Has(label, "americas") THEN {"VCT Americas"}
    ELSE {}

\* What a record's time field holds: nothing ("missing"), a text that is no
\* date or number ("text"), the start as an ISO text ("iso") or as epoch
\* seconds ("epoch"), or a string of digits beyond the range of a timestamp
\* ("digits").
TimeKinds == {"missing", "text", "iso", "epoch", "digits"}
\* valorant_official.py _coerce_datetime: {} is None.  For "digits",
\* fromisoformat fails, float() succeeds, and the nested call's error is
\* caught by the inner except.
OfficialCoerceDatetime(kind, start) == IF kind \in {"iso", "epoch"} THEN {start} ELSE {}
\* henrikdev.py _coerce_datetime under _pick_start_dt, the time field being
\* the record's only time-like key
HenrikCoerceDatetime(kind, start) == IF kind \in {"iso", "epoch"} THEN {start} ELSE {}
\* vlrggapi.py _coerce_dt: a digit string goes to datetime.fromtimestamp
\* outside any try, which raises when it is out of range
VlrggCoerceRaises(kind) == kind = "digits"
VlrggCoerceDt(kind, start) == IF kind \in {"iso", "epoch"} THEN {start} ELSE {}

\* str(state).lower(), and `tok in state`
StateLower(s) ==
    CASE s = "inProgress" -> "inprogress" [] s = "LIVE" -> "live" [] s = "Final" -> "final"
      [] OTHER -> s
StateHas(s, tok) ==
    \/ StateLower(s) = tok
    \/ tok = "progress" /\ StateLower(s) = "inprogress"

\* ------------------------------------------------ providers: one raw record
\* How each source words the label of a tournament.
SourceLabel(p, tournament) ==
    IF p \in {"official", "henrikdev"}
    THEN CASE tournament = "VCT Americas"  -> <<"VCT", "Americas">>
           [] tournament = "VCT Masters"   -> <<"VCT", "Masters">>
           [] tournament = "VCT Champions" -> <<"VALORANT", "Champions">>
    ELSE CASE tournament = "VCT Americas"  -> <<"Champions", "Tour", "Americas">>
           [] tournament = "VCT Masters"   -> <<"Champions", "Tour", "Masters">>
           [] tournament = "VCT Champions" -> <<"VALORANT", "Champions">>
\* the henrikdev league identifier of a tournament
LeagueId(tournament) ==
    {k \in DOMAIN LEAGUE_NAME : LEAGUE_NAME[k] = tournament}

\* The record a feed carries for real match r when it reports state st.
Raw(r, st) == [team1 |-> RealMatches[r].team1, team2 |-> RealMatches[r].team2,
               start |-> RealMatches[r].start, id |-> RealMatches[r].srcid,
               label |-> [p \in ProviderSet |-> SourceLabel(p, RealMatches[r].tournament)],
               league |-> LeagueId(RealMatches[r].tournament),
               time |-> "iso", state |-> st]

\* valorant_official.py: one node of __NEXT_DATA__ -> zero or one Match
OfficialMatchId(raw) == StrOr(PyStr(raw.id), DerivedId(raw.team1, raw.team2, raw.start))
OfficialConvert(raw) ==
    LET canon == OfficialCanonTournament(raw.label["official"])
        start == OfficialCoerceDatetime(raw.time, raw.start)
    IN  IF canon = {} THEN <<>>
        ELSE IF start = {} THEN <<>>
        ELSE IF StateHas(raw.state, "completed") \/ StateHas(raw.state, "final") THEN <<>>
        ELSE <<Match(OfficialMatchId(raw), Opt(canon), raw.team1, raw.team2, Opt(start),
                     IF StateHas(raw.state, "live") \/ StateHas(raw.state, "progress")
                     THEN "LIVE" ELSE "SCHEDULED")>>

\* henrikdev.py _convert: one item -> zero or one Match.  The module defines
\* no _best_of: building the Match stops at line 169 with a NameError.
_best_of_Defined == FALSE
HenrikMatchId(raw) == IdOr(raw.id, DerivedId(raw.team1, raw.team2, raw.start))
\* the item passes the three filters (not_vct, no_start, completed)
HenrikAccepts(raw) ==
    /\ HenrikCanonTournament(raw.league, raw.label["henrikdev"]) # {}
    /\ HenrikCoerceDatetime(raw.time, raw.start) # {}
    /\ StateLower(raw.state) # "completed"
HenrikRaises(raw) == HenrikAccepts(raw) /\ ~_best_of_Defined
HenrikConvert(raw) ==
    IF ~HenrikAccepts(raw) \/ HenrikRaises(raw) THEN <<>>
    ELSE <<Match(HenrikMatchId(raw),
                 Opt(HenrikCanonTournament(raw.league, raw.label["henrikdev"])),
                 raw.team1, raw.team2, Opt(HenrikCoerceDatetime(raw.time, raw.start)),
                 IF StateHas(raw.state, "progress") \/ StateHas(raw.state, "live")
                 THEN "LIVE" ELSE "SCHEDULED")>>

\* vlrggapi.py fetch_upcoming: one segment -> zero or one Match (the segment
\* carries no state; match_page is the source id)
VlrggMatchId(raw) == IdOr(raw.id, DerivedId(raw.team1, raw.team2, raw.start))
VlrggRaises(raw) == VlrggCoerceRaises(raw.time)
VlrggConvert(raw) ==
    LET t  == VlrggCanonTournament(raw.label["vlrggapi"])
        dt == VlrggCoerceDt(raw.time, raw.start)
    IN  IF VlrggRaises(raw) \/ t = {} \/ dt = {} THEN <<>>
        ELSE <<Match(VlrggMatchId(raw), Opt(t), raw.team1, raw.team2, Opt(dt), "SCHEDULED")>>

\* vlresports.py: the start is the relative countdown "in": "live", tokens
\* <number><unit> with units w d h m, and possibly other text (no digit in
\* it).  CountdownOf is what the source prints for a match d minutes away
\* ("" once the start has passed).
UnitMinutes(u) == CASE u = "w" -> 10080 [] u = "d" -> 1440 [] u = "h" -> 60
                    [] u = "m" -> 1 [] OTHER -> 0
CountdownOf(d) ==
    IF d <= 0 THEN <<>>
    ELSE SelectSeq(<<[n |-> d \div 60, u |-> "h"], [n |-> d % 60, u |-> "m"]>>,
                   LAMBDA tok : tok.n > 0)
RawIn(raw, t) ==
    IF StateLower(raw.state) = "inprogress" THEN [live |-> TRUE, tokens |-> <<>>, other |-> ""]
    ELSE [live |-> FALSE, tokens |-> CountdownOf(raw.start - t), other |-> ""]
RECURSIVE SumTokens(_)
SumTokens(toks) ==
    IF toks = <<>> THEN 0 ELSE Head(toks).n * UnitMinutes(Head(toks).u) + SumTokens(Tail(toks))
\* _parse_in_to_dt at time t: {} is None (the empty text only)
_parse_in_to_dt(in, t) ==
    IF ~in.live /\ in.tokens = <<>> /\ in.other = "" THEN {}
    ELSE IF in.live THEN {t}
    ELSE {t + SumTokens(in.tokens)}
VlresportsMatchId(raw, in, t) ==
    IdOr(raw.id, DerivedId(raw.team1, raw.team2, Opt(_parse_in_to_dt(in, t))))
VlresportsConvert(raw, in, t) ==
    LET canon == VlresportsCanonTournament(raw.label["vlresports"])
    IN  IF canon = {} THEN <<>>
        ELSE IF _parse_in_to_dt(in, t) = {} THEN <<>>
        ELSE <<Match(VlresportsMatchId(raw, in, t), Opt(canon), raw.team1, raw.team2,
                     Opt(_parse_in_to_dt(in, t)),
                     IF in.live /\ in.tokens = <<>> /\ in.other = ""
                     THEN "LIVE" ELSE "SCHEDULED")>>

\* ------------------------------------------------- providers: whole fetches
\* feed[r] is the state the feeds report for real match r; a feed that lists
\* upcoming matches does not list a completed one.
RECURSIVE Flatten(_)
Flatten(ss) == IF ss = <<>> THEN <<>> ELSE Head(ss) \o Flatten(Tail(ss))

OfficialFetch(feed, t, limit) ==
    LET One(r) == OfficialConvert(Raw(r, feed[r]))
    IN Take(LiveFirst(Flatten([r \in RealIdx |-> One(r)])), limit)
HenrikFetch(feed, t, limit) ==
    LET One(r) == HenrikConvert(Raw(r, feed[r]))
    IN Take(LiveFirst(Flatten([r \in RealIdx |-> One(r)])), limit)
\* the records make the fetch raise (whichever query variant is tried, for
\* henrikdev, so that fetch_schedule raises the last error)
FetchRaises(p, feed) ==
    CASE p = "henrikdev" -> \E r \in RealIdx : HenrikRaises(Raw(r, feed[r]))
      [] p = "vlrggapi"  -> \E r \in RealIdx : feed[r] # "completed" /\ VlrggRaises(Raw(r, feed[r]))
      [] OTHER -> FALSE
VlrggFetch(feed, t, limit) ==
    LET One(r) == IF feed[r] = "completed" THEN <<>> ELSE VlrggConvert(Raw(r, feed[r]))
    IN Take(SortByStart(Flatten([r \in RealIdx |-> One(r)])), limit)
VlresportsFetch(feed, t, limit) ==
    LET One(r) == IF feed[r] = "completed" THEN <<>>
                  ELSE VlresportsConvert(Raw(r, feed[r]), RawIn(Raw(r, feed[r]), t), t)
    IN Take(SortByStart(Flatten([r \in RealIdx |-> One(r)])), limit)

\* matches.py _mock_vct_data at time t
_mock_vct_data_Empty(t) == <<>>
_mock_vct_data(t) ==
    << Match("G2-vs-T1-FAKE", "VCT Masters", "G2 Esports", "T1", t - MOCK_LIVE_OFFSET, "LIVE"),
       Match("C9-vs-NRG-FAKE", "VCT Americas", "Cloud9", "NRG", t + MOCK_SCHEDULED_OFFSET,
             "SCHEDULED") >>

\* What a call to a provider does, as the resolver sees it: "records" (it
\* returns the feed's records), "empty" (it returns no record), "error" (it
\* raises), "timeout" (its timeout raises), "undecodable" (the payload cannot
\* be decoded).
ProviderOutcomes == {"records", "empty", "error", "timeout", "undecodable"}
\* the call raises: every failure does, except that the official page's
\* fetch returns [] itself when its payload is not found or not decodable
ProviderRaises(p, o) == o \in {"error", "timeout"} \/ (o = "undecodable" /\ p # "official")
\* except Exception, around each provider's block
CaughtByResolver_NoTimeout(o) == o \in {"error", "undecodable"}
CaughtByResolver(o) == o \in {"error", "timeout", "undecodable"}
\* what the call does, given what the feed's records do to the fetch
CallOutcome(p, o, feed) == IF o = "records" /\ FetchRaises(p, feed) THEN "error" ELSE o
\* what the call returns when it returns
ProviderList(o, list) == IF o = "records" THEN list ELSE <<>>

\* One provider's block of upcoming_vct_matches: {} when the block falls
\* through to the next one, {result} when it returns.
Attempt_Never(p, o, list, limit) == {}
Attempt(p, o, list, limit) ==
    IF ProviderRaises(p, o) THEN {}
    ELSE LET sel == SelectSeq(ProviderList(o, list), InScope)
         IN  IF sel = <<>> THEN {}
             ELSE {Take(IF p \in {"official", "henrikdev"} THEN LiveFirst(sel) ELSE sel, limit)}
\* the last resort
MockResult(t, limit) == Take(LiveFirst(_mock_vct_data(t)), limit)

\* the blocks from the k-th provider on
RECURSIVE ResolveFrom(_, _, _, _, _)
ResolveFrom(k, outs, lists, t, limit) ==
    IF k > Len(Providers) THEN MockResult(t, limit)
    ELSE LET a == Attempt(Providers[k], outs[Providers[k]], lists[Providers[k]], limit)
         IN  IF a # {} THEN Opt(a) ELSE ResolveFrom(k + 1, outs, lists, t, limit)

\* what each provider's fetch returns for the feed when asked for n matches
FeedLists(feed, t, n) ==
    [p \in ProviderSet |->
        CASE p = "official"   -> OfficialFetch(feed, t, n)
          [] p = "henrikdev"  -> HenrikFetch(feed, t, n)
          [] p = "vlrggapi"   -> VlrggFetch(feed, t, n)
          [] p = "vlresports" -> VlresportsFetch(feed, t, n)]

\* A tick is run with every provider returning records (the official site
\* serves) or with every provider raising (the built-in dataset serves).
OutcomeVectors == {[p \in ProviderSet |-> x] : x \in {"records", "error"}}
\* matches.py upcoming_vct_matches(limit) at time t; outs[p] is what the call
\* to provider p does
upcoming_vct_matches(outs, feed, t, limit) ==
    ResolveFrom(1, [p \in ProviderSet |-> CallOutcome(p, outs[p], feed)],
                FeedLists(feed, t, limit * 2), t, limit)

\* --------------------------------------------------------------- alerts.py
POLL_LIMIT == 20

VARIABLES
    clock,          \* wall clock, minutes
    data,           \* the settings document: guild id -> entry
    channels,       \* text channels that exist (guild.get_channel finds them)
    voice_channels, \* guild -> bag of voice channel names
    events,         \* guild -> bag of match ids with a scheduled event
    delivered,      \* guild -> bag of match ids of the alert messages posted
    pc,             \* where the poller task is
    now,            \* the tick's `now`
    all_matches,    \* the tick's resolved list
    gi, mi,         \* position of the guild loop and of the match loop
    lead,           \* the current guild's lead, read at line 143
    allow_events,   \* the current guild's event switch, read at line 144
    seen,           \* history: what this tick decided and met so far, per pair
    boot,           \* history: the flags in the store when the poller was last
                    \*   stopped between two ticks
    switchSeen,     \* history: guild -> the values its event switch has had
    refused,        \* history: some Discord call has failed so far
    cmds,           \* number of commands so far
    ticks,          \* number of ticks begun
    probe           \* the input and the outcome of the calls checked on their own

world    == <<clock, channels>>
discord  == <<voice_channels, events, delivered>>
locals   == <<now, all_matches, gi, mi, lead, allow_events, seen>>
history  == <<boot, switchSeen, refused>>
vars == <<clock, data, channels, voice_channels, events, delivered, pc, now,
          all_matches, gi, mi, lead, allow_events, seen, boot, switchSeen, refused,
          cmds, ticks, probe>>

\* f"{emoji} Watch . {team1} vs {team2}"
_tour_emoji(tournament) ==
    CASE tournament = "VCT Masters" -> "purple"
      [] tournament = "VCT Americas" -> "orange"
      [] tournament = "VCT Champions" -> "trophy"
      [] OTHER -> "gamepad"
VcName(m) == _tour_emoji(m.tournament) \o " Watch " \o m.team1 \o " vs " \o m.team2

_starts_within_lead_Inclusive0(m, t, lead_minutes) ==
    IF m.status = "LIVE" THEN FALSE
    ELSE 0 <= m.start_time - t /\ m.start_time - t <= lead_minutes
_starts_within_lead_IgnoreLive(m, t, lead_minutes) ==
    0 < m.start_time - t /\ m.start_time - t <= lead_minutes
_starts_within_lead(m, t, lead_minutes) ==
    IF m.status = "LIVE" THEN FALSE
    ELSE 0 < m.start_time - t /\ m.start_time - t <= lead_minutes

Note(g, j, l, a, verdict) == [g |-> g, mi |-> j, lead |-> l, allow |-> a, verdict |-> verdict]

\* Lines 133-150: run the two loops on from guild index i, match index j
\* (j = 0: the guild is being entered) up to the next `await chan.send`, or
\* to the end of the guild loop (line 174).  d is the document, l and a the
\* current guild's lead and event switch, sn what was decided so far.
RECURSIVE Scan(_, _, _, _, _, _, _, _, _)
Scan(d, chans, ms, t, i, j, l, a, sn) ==
    IF i > Len(Guilds)
    THEN [pc |-> "done", gi |-> i, mi |-> 0, lead |-> l, allow |-> a, seen |-> sn]
    ELSE LET g == Guilds[i] IN
      IF j = 0
      THEN IF get_alert_channel(d, g) = {}
           THEN Scan(d, chans, ms, t, i + 1, 0, l, a, sn \cup {Note(g, 0, l, a, "nochannel")})
           ELSE IF Opt(get_alert_channel(d, g)) \notin chans
           THEN Scan(d, chans, ms, t, i + 1, 0, l, a, sn \cup {Note(g, 0, l, a, "gone")})
           ELSE Scan(d, chans, ms, t, i, 1, get_lead_minutes(d, g, DEFAULT_LEAD_MINUTES),
                     is_event_enabled(d, g, TRUE), sn)
      ELSE IF j > Len(ms)
      THEN Scan(d, chans, ms, t, i + 1, 0, l, a, sn)
      ELSE IF ~_starts_within_lead(ms[j], t, l)
      THEN Scan(d, chans, ms, t, i, j + 1, l, a, sn \cup {Note(g, j, l, a, "out")})
      ELSE IF was_alert_sent(d, g, ms[j].id)
      THEN Scan(d, chans, ms, t, i, j + 1, l, a, sn \cup {Note(g, j, l, a, "dup")})
      ELSE [pc |-> "send", gi |-> i, mi |-> j, lead |-> l, allow |-> a,
            seen |-> sn \cup {Note(g, j, l, a, "send")}]

\* the poller is where the loops stopped
Land(r) ==
    /\ pc' = r.pc /\ gi' = r.gi /\ mi' = r.mi
    /\ lead' = r.lead /\ allow_events' = r.allow /\ seen' = r.seen
Stay(where) ==
    /\ pc' = where
    /\ UNCHANGED <<gi, mi, lead, allow_events, seen>>

CurGuild == Guilds[gi]
CurMatch == all_matches[mi]
BagAdd(b, x) == b (+) SetToBag({x})
Count(b, x) == CopiesIn(x, b)
Met(what) == seen \cup {Note(CurGuild, mi, lead, allow_events, what)}

\* the loops go on after the current match; sn is what the tick has met
Continue(d, sn) ==
    Land(Scan(d, channels, all_matches, now, gi, mi + 1, lead, allow_events, sn))

\* what guild g's "event_enabled" key says in document d (missing: on)
Switch(d, g) == LET v == GetEntry(d, g).event_enabled IN IF v = {} THEN TRUE ELSE Opt(v)
Flags(d) == [g \in GuildIds |-> GetEntry(d, g).alerts_sent]
NoProbe == <<>>

\* the documents the bot starts with: nothing configured yet, or every guild
\* with its alert channel set, the first guild with the event switch never
\* written (default on) and the others with it written off
InitDocs ==
    { <<>>,
      [g \in GuildIds |->
          [EmptyEntry EXCEPT !.alert_channel_id = {ChannelOf(g)},
                             !.event_enabled = IF g = Guilds[1] THEN {} ELSE {FALSE}]] }

Init ==
    /\ clock = 0
    /\ data \in InitDocs
    /\ channels = {ChannelOf(g) : g \in GuildIds}
    /\ voice_channels = [g \in GuildIds |-> EmptyBag]
    /\ events = [g \in GuildIds |-> EmptyBag]
    /\ delivered = [g \in GuildIds |-> EmptyBag]
    /\ pc = "sleep"
    /\ now = 0
    /\ all_matches = <<>>
    /\ gi = 0 /\ mi = 0
    /\ lead = DEFAULT_LEAD_MINUTES
    /\ allow_events = TRUE
    /\ seen = {}
    /\ boot = Flags(data)
    /\ switchSeen = [g \in GuildIds |-> {Switch(data, g)}]
    /\ refused = FALSE
    /\ cmds = 0 /\ ticks = 0
    /\ probe = NoProbe

\* line 116: the sleep is over, a tick begins
TickStart ==
    /\ pc = "sleep"
    /\ ticks < MaxTicks
    /\ ticks' = ticks + 1
    /\ pc' = "fetch"
    /\ now' = clock
    /\ UNCHANGED <<world, data, discord, all_matches, gi, mi, lead, allow_events, seen,
                   history, cmds, probe>>

\* lines 124-150: the resolver returns, the loops run to the first send
Fetch ==
    /\ pc = "fetch"
    /\ \E outs \in OutcomeVectors, feed \in FeedVectors :
         /\ all_matches' = upcoming_vct_matches(outs, feed, clock, POLL_LIMIT)
         /\ Land(Scan(data, channels, all_matches', now, 1, 0, lead, allow_events, {}))
    /\ UNCHANGED <<world, data, discord, now, history, cmds, ticks, probe>>

\* line 174: the tick is over, the poller sleeps; the tick's locals are dead
\* (each is assigned again before it is read)
TickEnd ==
    /\ pc = "done"
    /\ pc' = "sleep"
    /\ now' = 0 /\ all_matches' = <<>> /\ gi' = 0 /\ mi' = 0
    /\ lead' = DEFAULT_LEAD_MINUTES /\ allow_events' = TRUE /\ seen' = {}
    /\ UNCHANGED <<world, data, discord, history, cmds, ticks, probe>>

\* lines 74-75, 101-102, 155-157: a refused call is passed over
OnForbidden_Raise(d, sn) ==
    /\ pc' = "dead"
    /\ seen' = sn
    /\ UNCHANGED <<gi, mi, lead, allow_events>>
OnForbidden(d, sn) == Continue(d, sn)

\* lines 83-84 and 164-166: with the voice channel there, the event is asked
\* for unless the pair is flagged
ToEvent(d) ==
    IF was_event_created(d, CurGuild, CurMatch.id)
    THEN Continue(d, seen)
    ELSE Stay("create_event")

\* lines 66-73: reuse a voice channel of that name, else ask for one
_ensure_voice_channel_NoReuse(d) == Stay("create_vc")
_ensure_voice_channel(d) ==
    IF BagIn(VcName(CurMatch), voice_channels[CurGuild])
    THEN ToEvent(d)
    ELSE Stay("create_vc")

\* lines 160-163
AfterSend(d) == IF allow_events THEN _ensure_voice_channel(d) ELSE Continue(d, seen)

SendOutcomes == {"ok", "Forbidden", "NotFound"}
\* lines 153-158: chan.send returns or raises
SendDone ==
    /\ pc = "send"
    /\ \E out \in SendOutcomes :
         \/ /\ out = "ok"
            /\ delivered' = [delivered EXCEPT ![CurGuild] = BagAdd(@, CurMatch.id)]
            /\ data' = mark_alert_sent(data, CurGuild, CurMatch.id)
            /\ AfterSend(data')
            /\ UNCHANGED refused
         \/ /\ out = "Forbidden"
            /\ OnForbidden(data, Met("send_refused"))
            /\ refused' = TRUE
            /\ UNCHANGED <<data, delivered>>
         \/ /\ out = "NotFound"
            /\ Stay("dead")
            /\ refused' = TRUE
            /\ UNCHANGED <<data, delivered>>
    /\ UNCHANGED <<world, voice_channels, events, now, all_matches, boot, switchSeen,
                   cmds, ticks, probe>>

ResourceOutcomes == {"ok", "Forbidden"}
\* lines 72-75, 164-165: create_voice_channel returns or is refused
CreateVcDone ==
    /\ pc = "create_vc"
    /\ \E out \in ResourceOutcomes :
         \/ /\ out = "ok"
            /\ voice_channels' = [voice_channels EXCEPT ![CurGuild] = BagAdd(@, VcName(CurMatch))]
            /\ ToEvent(data)
            /\ UNCHANGED refused
         \/ /\ out = "Forbidden"
            /\ OnForbidden(data, Met("vc_refused"))
            /\ refused' = TRUE
            /\ UNCHANGED voice_channels
    /\ UNCHANGED <<world, data, events, delivered, now, all_matches, boot, switchSeen,
                   cmds, ticks, probe>>

\* lines 89-102, 166: create_scheduled_event returns or is refused
CreateEventDone ==
    /\ pc = "create_event"
    /\ \E out \in ResourceOutcomes :
         \/ /\ out = "ok"
            /\ events' = [events EXCEPT ![CurGuild] = BagAdd(@, CurMatch.id)]
            /\ data' = mark_event_created(data, CurGuild, CurMatch.id)
            /\ Stay("announce")
            /\ UNCHANGED refused
         \/ /\ out = "Forbidden"
            /\ OnForbidden(data, Met("event_refused"))
            /\ refused' = TRUE
            /\ UNCHANGED <<data, events>>
    /\ UNCHANGED <<world, voice_channels, delivered, now, all_matches, boot, switchSeen,
                   cmds, ticks, probe>>

AnnounceOutcomes == {"ok", "retry_ok", "retry_fails"}
\* lines 167-172: the announcement is sent; if that raises, a plain one is
\* sent, and if that raises too the exception leaves the task
AnnounceDone ==
    /\ pc = "announce"
    /\ \E out \in AnnounceOutcomes :
         \/ /\ out = "ok"
            /\ Continue(data, seen)
            /\ UNCHANGED refused
         \/ /\ out = "retry_ok"
            /\ Continue(data, seen)
            /\ refused' = TRUE
         \/ /\ out = "retry_fails"
            /\ Stay("dead")
            /\ refused' = TRUE
    /\ UNCHANGED <<world, data, discord, now, all_matches, boot, switchSeen, cmds, ticks,
                   probe>>

\* where the poller can be suspended (an await) or has ended; "done" is a
\* point inside the synchronous code, nothing else runs there
Suspended == {"sleep", "fetch", "send", "create_vc", "create_event", "announce", "dead"}

\* The process is shut down (or the task cancelled) while the poller is
\* suspended.  A request in flight may or may not have reached Discord; what
\* follows the await never runs.  Nothing in memory survives.
Shutdown ==
    /\ pc \in Suspended
    /\ pc' = "stopped"
    /\ \E landed \in BOOLEAN :
         /\ delivered' = IF landed /\ pc = "send"
                         THEN [delivered EXCEPT ![CurGuild] = BagAdd(@, CurMatch.id)]
                         ELSE delivered
         /\ voice_channels' = IF landed /\ pc = "create_vc"
                              THEN [voice_channels EXCEPT ![CurGuild] = BagAdd(@, VcName(CurMatch))]
                              ELSE voice_channels
         /\ events' = IF landed /\ pc = "create_event"
                      THEN [events EXCEPT ![CurGuild] = BagAdd(@, CurMatch.id)]
                      ELSE events
    /\ now' = 0 /\ all_matches' = <<>> /\ gi' = 0 /\ mi' = 0
    /\ lead' = DEFAULT_LEAD_MINUTES /\ allow_events' = TRUE /\ seen' = {}
    /\ boot' = IF pc = "sleep" THEN Flags(data) ELSE boot
    /\ UNCHANGED <<world, data, switchSeen, refused, cmds, ticks, probe>>

\* main.py on_ready: a fresh process starts a fresh poller
Restart ==
    /\ pc = "stopped"
    /\ pc' = "sleep"
    /\ UNCHANGED <<world, data, discord, locals, history, cmds, ticks, probe>>

\* cogs/admin.py set_alert_channel_cmd, run in guild g's channel
SetAlertChannel(g) ==
    /\ pc \in Suspended /\ cmds < MaxCmds
    /\ ChannelOf(g) \in channels
    /\ data' = set_alert_channel(data, g, ChannelOf(g))
    /\ cmds' = cmds + 1
    /\ UNCHANGED <<world, discord, pc, locals, history, ticks, probe>>

\* cogs/settings.py set_lead
SetLead(g, minutes) ==
    /\ pc \in Suspended /\ cmds < MaxCmds
    /\ data' = set_lead_minutes(data, g, minutes)
    /\ cmds' = cmds + 1
    /\ UNCHANGED <<world, discord, pc, locals, history, ticks, probe>>

\* cogs/settings.py set_events
SetEvents(g, enabled) ==
    /\ pc \in Suspended /\ cmds < MaxCmds
    /\ data' = set_event_enabled(data, g, enabled)
    /\ switchSeen' = [switchSeen EXCEPT ![g] = @ \cup {Switch(data', g)}]
    /\ cmds' = cmds + 1
    /\ UNCHANGED <<world, discord, pc, locals, boot, refused, ticks, probe>>

\* a guild's text channel is deleted
DeleteChannel(g) ==
    /\ pc \in Suspended \cup {"stopped"} /\ cmds < MaxCmds
    /\ ChannelOf(g) \in channels
    /\ channels' = channels \ {ChannelOf(g)}
    /\ cmds' = cmds + 1
    /\ UNCHANGED <<clock, data, discord, pc, locals, history, ticks, probe>>

\* time passes while the poller sleeps or the process is down
AdvanceClock ==
    /\ pc \in {"sleep", "stopped"}
    /\ clock + ClockStep <= MaxClock
    /\ clock' = clock + ClockStep
    /\ UNCHANGED <<channels, data, discord, pc, locals, history, cmds, ticks, probe>>

Next ==
    \/ TickStart
    \/ Fetch
    \/ TickEnd
    \/ SendDone
    \/ CreateVcDone
    \/ CreateEventDone
    \/ AnnounceDone
    \/ Shutdown
    \/ Restart
    \/ \E g \in CommandGuilds : SetAlertChannel(g)
    \/ \E g \in CommandGuilds, n \in LeadInputs : SetLead(g, n)
    \/ \E g \in CommandGuilds, b \in BOOLEAN : SetEvents(g, b)
    \/ \E g \in CommandGuilds : DeleteChannel(g)
    \/ AdvanceClock

Spec == Init /\ [][Next]_vars

\* ------------------------------------------------- polls of one raw record
MaxPolls == 2
MaxPollClock == 3

\* One record of one provider's payload, as the source serves it at minute 0:
\* the provider, the record, and (vlresports) its "in" text.
ProbeRecords ==
    {[provider |-> p, raw |-> Raw(r, st), in |-> RawIn(Raw(r, st), 0), polls |-> <<>>] :
        p \in ProviderSet, r \in RealIdx, st \in {"unstarted", "inProgress"}}

\* what the provider's conversion makes of the record when polled at time t
ProbeConvert(pr, t) ==
    CASE pr.provider = "official"   -> OfficialConvert(pr.raw)
      [] pr.provider = "henrikdev"  -> HenrikConvert(pr.raw)
      [] pr.provider = "vlrggapi"   -> VlrggConvert(pr.raw)
      [] pr.provider = "vlresports" -> VlresportsConvert(pr.raw, pr.in, t)

PollInit ==
    /\ clock = 0
    /\ data = <<>>
    /\ channels = {ChannelOf(g) : g \in GuildIds}
    /\ voice_channels = [g \in GuildIds |-> EmptyBag]
    /\ events = [g \in GuildIds |-> EmptyBag]
    /\ delivered = [g \in GuildIds |-> EmptyBag]
    /\ pc = "sleep"
    /\ now = 0
    /\ all_matches = <<>>
    /\ gi = 0 /\ mi = 0
    /\ lead = DEFAULT_LEAD_MINUTES
    /\ allow_events = TRUE
    /\ seen = {}
    /\ boot = Flags(data)
    /\ switchSeen = [g \in GuildIds |-> {Switch(data, g)}]
    /\ refused = FALSE
    /\ cmds = 0 /\ ticks = 0
    /\ probe \in ProbeRecords

\* the provider is polled: the record is converted at the current time
Poll ==
    /\ Len(probe.polls) < MaxPolls
    /\ LET got == ProbeConvert(probe, clock)
       IN  /\ got # <<>>
           /\ probe' = [probe EXCEPT !.polls = Append(@, [t |-> clock, id |-> got[1].id])]
    /\ UNCHANGED <<world, data, discord, pc, locals, history, cmds, ticks>>

\* time passes between two polls
PollWait ==
    /\ clock < MaxPollClock
    /\ clock' = clock + 1
    /\ UNCHANGED <<channels, data, discord, pc, locals, history, cmds, ticks, probe>>

PollNext == Poll \/ PollWait

PollSpec == PollInit /\ [][PollNext]_vars

\* ------------------------------------------------ one call of the resolver
MaxLimit == 2

\* the "in" texts a vlresports item carries: live, 0m, 5m
InTexts == { [live |-> TRUE,  tokens |-> <<>>, other |-> ""],
             [live |-> FALSE, tokens |-> <<[n |-> 0, u |-> "m"]>>, other |-> ""],
             [live |-> FALSE, tokens |-> <<[n |-> 5, u |-> "m"]>>, other |-> ""] }

\* vlresports fetch_upcoming over a payload whose item r carries ins[r]
VlresportsFetchIns(ins, t, limit) ==
    LET One(r) == VlresportsConvert(Raw(r, "unstarted"), ins[r], t)
    IN Take(SortByStart(Flatten([r \in RealIdx |-> One(r)])), limit)

\* One call upcoming_vct_matches(limit): what each provider's call does, what
\* the feeds carry, and how far the call has come: k is the next block,
\* queried the providers called so far, result {} until the call returns.
ResolverCalls ==
    {[outs |-> o, feed |-> f, ins |-> i, limit |-> l,
      k |-> 1, queried |-> <<>>, result |-> {}, served |-> "", raised |-> FALSE] :
        o \in [ProviderSet -> ProviderOutcomes], f \in FeedVectors,
        i \in [RealIdx -> InTexts], l \in 0..MaxLimit}

\* what the providers return in this call when asked for n matches
CallLists(c, t, n) ==
    [p \in ProviderSet |->
        IF p = "vlresports" THEN VlresportsFetchIns(c.ins, t, n)
        ELSE FeedLists(c.feed, t, n)[p]]

ResolverInit ==
    /\ clock = 0
    /\ data = <<>>
    /\ channels = {ChannelOf(g) : g \in GuildIds}
    /\ voice_channels = [g \in GuildIds |-> EmptyBag]
    /\ events = [g \in GuildIds |-> EmptyBag]
    /\ delivered = [g \in GuildIds |-> EmptyBag]
    /\ pc = "fetch"
    /\ now = 0
    /\ all_matches = <<>>
    /\ gi = 0 /\ mi = 0
    /\ lead = DEFAULT_LEAD_MINUTES
    /\ allow_events = TRUE
    /\ seen = {}
    /\ boot = Flags(data)
    /\ switchSeen = [g \in GuildIds |-> {Switch(data, g)}]
    /\ refused = FALSE
    /\ cmds = 0 /\ ticks = 0
    /\ probe \in ResolverCalls

\* matches.py:50-96, one try block: the provider is called; the block
\* returns its in-scope matches, or falls through to the next block
QueryProvider ==
    /\ probe.result = {} /\ ~probe.raised
    /\ probe.k <= Len(Providers)
    /\ LET p == Providers[probe.k]
           o == CallOutcome(p, probe.outs[p], probe.feed)
           a == Attempt(p, o, CallLists(probe, clock, probe.limit * 2)[p], probe.limit)
       IN  probe' = [probe EXCEPT
                        !.queried = Append(@, p),
                        !.raised  = ProviderRaises(p, o) /\ ~CaughtByResolver(o),
                        !.result  = IF ProviderRaises(p, o) /\ ~CaughtByResolver(o) THEN {} ELSE a,
                        !.served  = IF a # {} THEN p ELSE "",
                        !.k       = @ + 1]
    /\ UNCHANGED <<world, data, discord, pc, locals, history, cmds, ticks>>

\* matches.py:98-102: every block fell through, the built-in dataset serves
UseMock ==
    /\ probe.result = {} /\ ~probe.raised
    /\ probe.k > Len(Providers)
    /\ probe' = [probe EXCEPT !.result = {MockResult(clock, probe.limit)}, !.served = "mock"]
    /\ UNCHANGED <<world, data, discord, pc, locals, history, cmds, ticks>>

ResolverNext == QueryProvider \/ UseMock

ResolverSpec == ResolverInit /\ [][ResolverNext]_vars

\* ------------------------------------- one record given to one provider
MaxLabelLen == 3

\* the words labels are made of, and the labels
Words == {"Champions", "Tour", "MASTERS", "Americas", "VCT", "VALORANT"}
Labels == UNION {[1..n -> Words] : n \in 0..MaxLabelLen}
\* what a record's state / status field holds ("" when it has none)
StateMarkers == {"", "unstarted", "inProgress", "LIVE", "completed", "Final"}
\* the "in" texts of a vlresports item: "", "TBD", "live", "5m"
CanonIns == { [live |-> FALSE, tokens |-> <<>>, other |-> ""],
              [live |-> FALSE, tokens |-> <<>>, other |-> "TBD"],
              [live |-> TRUE,  tokens |-> <<>>, other |-> ""],
              [live |-> FALSE, tokens |-> <<[n |-> 5, u |-> "m"]>>, other |-> ""] }

\* One record of a payload, every source wording the label the same way and
\* no league identifier given.
CanonRecord(l, k, st) ==
    [team1 |-> "G2 Esports", team2 |-> "T1", start |-> 35, id |-> {"m1"},
     label |-> [p \in ProviderSet |-> l], league |-> {}, time |-> k, state |-> st]
\* The records given to the providers: every label on a record that is
\* otherwise complete, and every time field, state and "in" text on a
\* record whose label every provider takes for VCT Masters.
CanonProbes ==
    {[raw |-> CanonRecord(l, "iso", "unstarted"), in |-> i,
      provider |-> "", canon |-> {}, out |-> <<>>, raised |-> FALSE] :
        l \in Labels, i \in {[live |-> FALSE, tokens |-> <<[n |-> 5, u |-> "m"]>>, other |-> ""]}}
    \cup
    {[raw |-> CanonRecord(<<"VCT", "MASTERS">>, k, st), in |-> i,
      provider |-> "", canon |-> {}, out |-> <<>>, raised |-> FALSE] :
        k \in TimeKinds, st \in StateMarkers, i \in CanonIns}

\* the provider's _canon_tournament on the record's label
CanonOf(p, raw) ==
    CASE p = "official"   -> OfficialCanonTournament(raw.label[p])
      [] p = "henrikdev"  -> HenrikCanonTournament(raw.league, raw.label[p])
      [] p = "vlrggapi"   -> VlrggCanonTournament(raw.label[p])
      [] p = "vlresports" -> VlresportsCanonTournament(raw.label[p])
\* the provider's conversion of the record raises
ConvertRaises(p, raw) ==
    CASE p = "henrikdev" -> HenrikRaises(raw)
      [] p = "vlrggapi"  -> VlrggRaises(raw)
      [] OTHER -> FALSE

CanonInit ==
    /\ clock = 0
    /\ data = <<>>
    /\ channels = {ChannelOf(g) : g \in GuildIds}
    /\ voice_channels = [g \in GuildIds |-> EmptyBag]
    /\ events = [g \in GuildIds |-> EmptyBag]
    /\ delivered = [g \in GuildIds |-> EmptyBag]
    /\ pc = "fetch"
    /\ now = 0
    /\ all_matches = <<>>
    /\ gi = 0 /\ mi = 0
    /\ lead = DEFAULT_LEAD_MINUTES
    /\ allow_events = TRUE
    /\ seen = {}
    /\ boot = Flags(data)
    /\ switchSeen = [g \in GuildIds |-> {Switch(data, g)}]
    /\ refused = FALSE
    /\ cmds = 0 /\ ticks = 0
    /\ probe \in CanonProbes

\* the record goes through one provider's loop body
Canonicalize ==
    /\ probe.provider = ""
    /\ \E p \in ProviderSet :
         probe' = [probe EXCEPT
                      !.provider = p,
                      !.canon    = CanonOf(p, probe.raw),
                      !.out      = ProbeConvert([provider |-> p, raw |-> probe.raw,
                                                 in |-> probe.in], clock),
                      !.raised   = ConvertRaises(p, probe.raw)]
    /\ UNCHANGED <<world, data, discord, pc, locals, history, cmds, ticks>>

CanonNext == Canonicalize

CanonSpec == CanonInit /\ [][CanonNext]_vars

\* ------------------------------ ticks over two records of one provider
\* Two records of one payload: VCT Masters matches that are not started,
\* with the teams, the start and the source id ({}: none) they carry.
PairRecord(teams, st, id) ==
    [team1 |-> teams[1], team2 |-> teams[2], start |-> st, id |-> id,
     label |-> [p \in ProviderSet |-> SourceLabel(p, "VCT Masters")],
     league |-> LeagueId("VCT Masters"), time |-> "iso", state |-> "unstarted"]
PairRecords ==
    {PairRecord(tm, st, id) : tm \in {<<"G2 Esports", "T1">>, <<"Cloud9", "NRG">>},
                              st \in {20, 35}, id \in {{}, {"m1"}}}
\* two different matches, the first one G2 Esports vs T1 at minute 20: the
\* teams or the start differ, and the source ids, where both are given, differ
Pairs ==
    {pr \in PairRecords \X PairRecords :
        /\ pr[1].team1 = "G2 Esports" /\ pr[1].start = 20
        /\ <<pr[1].team1, pr[1].team2, pr[1].start>> # <<pr[2].team1, pr[2].team2, pr[2].start>>
        /\ pr[1].id = {} \/ pr[2].id = {} \/ pr[1].id # pr[2].id}
PairProbes == {[provider |-> p, pair |-> pr] : p \in ProviderSet, pr \in Pairs}

\* what each provider's fetch returns for a payload of the two records
PairLists(pr, t, n) ==
    [p \in ProviderSet |->
        CASE p = "official" ->
               Take(LiveFirst(OfficialConvert(pr[1]) \o OfficialConvert(pr[2])), n)
          [] p = "henrikdev" ->
               Take(LiveFirst(HenrikConvert(pr[1]) \o HenrikConvert(pr[2])), n)
          [] p = "vlrggapi" ->
               Take(SortByStart(VlrggConvert(pr[1]) \o VlrggConvert(pr[2])), n)
          [] p = "vlresports" ->
               Take(SortByStart(VlresportsConvert(pr[1], RawIn(pr[1], t), t)
                                \o VlresportsConvert(pr[2], RawIn(pr[2], t), t)), n)]
\* what each provider's call does: the probe's provider has the payload (its
\* fetch raises if the conversion of a record does), the others fail
PairOutcomes(c) ==
    [p \in ProviderSet |->
        IF p = c.provider /\ ~\E i \in {1, 2} : ConvertRaises(p, c.pair[i])
        THEN "records" ELSE "error"]

PairInit ==
    /\ clock = 10
    /\ data \in InitDocs \ {<<>>}
    /\ channels = {ChannelOf(g) : g \in GuildIds}
    /\ voice_channels = [g \in GuildIds |-> EmptyBag]
    /\ events = [g \in GuildIds |-> EmptyBag]
    /\ delivered = [g \in GuildIds |-> EmptyBag]
    /\ pc = "sleep"
    /\ now = 0
    /\ all_matches = <<>>
    /\ gi = 0 /\ mi = 0
    /\ lead = DEFAULT_LEAD_MINUTES
    /\ allow_events = TRUE
    /\ seen = {}
    /\ boot = Flags(data)
    /\ switchSeen = [g \in GuildIds |-> {Switch(data, g)}]
    /\ refused = FALSE
    /\ cmds = 0 /\ ticks = 0
    /\ probe \in PairProbes

\* alerts.py:124-150 with the payload of the two records
PairFetch ==
    /\ pc = "fetch"
    /\ all_matches' = ResolveFrom(1, PairOutcomes(probe),
                                  PairLists(probe.pair, clock, POLL_LIMIT * 2),
                                  clock, POLL_LIMIT)
    /\ Land(Scan(data, channels, all_matches', now, 1, 0, lead, allow_events, {}))
    /\ UNCHANGED <<world, data, discord, now, history, cmds, ticks, probe>>

PairNext ==
    \/ TickStart
    \/ PairFetch
    \/ SendDone
    \/ CreateVcDone
    \/ CreateEventDone
    \/ AnnounceDone
    \/ TickEnd

PairSpec == PairInit /\ [][PairNext]_vars

\* ------------------------------------------- calls of the storage functions
MaxCalls == 2

\* settings.json: absent, not valid JSON, valid JSON that is not an object
\* of objects (a list), or a document
StoreDocs ==
    { <<>>,
      (1 :> [EmptyEntry EXCEPT !.alert_channel_id = {10}, !.lead_minutes = {60},
                               !.event_enabled = {FALSE}, !.alerts_sent = {"m1"},
                               !.events_created = {"m1"}]) }
Files == {[kind |-> k, doc |-> <<>>] : k \in {"absent", "invalid", "wrongshape"}}
            \cup {[kind |-> "dict", doc |-> d] : d \in StoreDocs}

\* _read: {} when the file is absent or json.loads raises JSONDecodeError,
\* else whatever json.loads returns
_read(file) ==
    CASE file.kind = "dict"       -> [isdict |-> TRUE, doc |-> file.doc]
      [] file.kind = "wrongshape" -> [isdict |-> FALSE, doc |-> <<>>]
      [] OTHER                    -> [isdict |-> TRUE, doc |-> <<>>]
\* _write: the file holds json.dumps(data)
_write(doc) == [kind |-> "dict", doc |-> doc]

\* the match id the calls are made with, and the defaults the callers pass
CallMatchId == "m1"
CallArgs(op) ==
    CASE op = "get_lead_minutes"  -> {"30", "45"}
      [] op = "is_event_enabled"  -> {"TRUE", "FALSE"}
      [] op = "set_lead_minutes"  -> {"1", "500"}
      [] op = "set_event_enabled" -> {"TRUE", "FALSE"}
      [] OTHER -> {""}
IntOf(a) == CASE a = "30" -> 30 [] a = "45" -> 45 [] a = "1" -> 1 [] a = "500" -> 500
BoolOf(a) == a = "TRUE"
PyNone(v) == IF v = {} THEN "None" ELSE ToString(Opt(v))

ReadOps == {"get_alert_channel", "was_alert_sent", "was_event_created",
            "get_lead_minutes", "is_event_enabled"}
WriteOps == {"set_alert_channel", "mark_alert_sent", "mark_event_created",
             "set_lead_minutes", "set_event_enabled"}

\* A get operation called on the file: what it returns, whether it raises
\* (data.get on a value that is not a dict), and the file after it.
ReadCall_CreatesEntry(op, file, g, a) ==
    [file |-> _write(_guild(_read(file).doc, g)), raised |-> FALSE, ret |-> ""]
ReadCall(op, file, g, a) ==
    LET r == _read(file)
    IN  IF ~r.isdict THEN [file |-> file, raised |-> TRUE, ret |-> ""]
        ELSE [file |-> file, raised |-> FALSE,
              ret |-> CASE op = "get_alert_channel" -> PyNone(get_alert_channel(r.doc, g))
                        [] op = "was_alert_sent"    -> ToString(was_alert_sent(r.doc, g, CallMatchId))
                        [] op = "was_event_created" -> ToString(was_event_created(r.doc, g, CallMatchId))
                        [] op = "get_lead_minutes"  -> ToString(get_lead_minutes(r.doc, g, IntOf(a)))
                        [] op = "is_event_enabled"  -> ToString(is_event_enabled(r.doc, g, BoolOf(a)))]

\* A set operation called on the file (data.setdefault on a value that is
\* not a dict raises before anything is written).
WriteCall(op, file, g, a) ==
    LET r == _read(file)
    IN  IF ~r.isdict THEN [file |-> file, raised |-> TRUE, ret |-> ""]
        ELSE [file |->
                _write(CASE op = "set_alert_channel"  -> set_alert_channel(r.doc, g, ChannelOf(g))
                         [] op = "mark_alert_sent"    -> mark_alert_sent(r.doc, g, CallMatchId)
                         [] op = "mark_event_created" -> mark_event_created(r.doc, g, CallMatchId)
                         [] op = "set_lead_minutes"   -> set_lead_minutes(r.doc, g, IntOf(a))
                         [] op = "set_event_enabled"  -> set_event_enabled(r.doc, g, BoolOf(a))),
              raised |-> FALSE, ret |-> "None"]

StoreInit ==
    /\ clock = 0
    /\ data = <<>>
    /\ channels = {ChannelOf(g) : g \in GuildIds}
    /\ voice_channels = [g \in GuildIds |-> EmptyBag]
    /\ events = [g \in GuildIds |-> EmptyBag]
    /\ delivered = [g \in GuildIds |-> EmptyBag]
    /\ pc = "sleep"
    /\ now = 0
    /\ all_matches = <<>>
    /\ gi = 0 /\ mi = 0
    /\ lead = DEFAULT_LEAD_MINUTES
    /\ allow_events = TRUE
    /\ seen = {}
    /\ boot = Flags(data)
    /\ switchSeen = [g \in GuildIds |-> {Switch(data, g)}]
    /\ refused = FALSE
    /\ cmds = 0 /\ ticks = 0
    /\ \E f \in Files :
         probe = [file |-> f, n |-> 0,
                  last |-> [op |-> "", g |-> 0, arg |-> "", before |-> f,
                            ret |-> "", raised |-> FALSE]]

\* the file after the call, and what the caller saw of it
Called(op, g, a, r) ==
    probe' = [file |-> r.file, n |-> probe.n + 1,
              last |-> [op |-> op, g |-> g, arg |-> a, before |-> probe.file,
                        ret |-> r.ret, raised |-> r.raised]]

StoreGet ==
    /\ probe.n < MaxCalls
    /\ \E op \in ReadOps, g \in GuildIds :
         \E a \in CallArgs(op) : Called(op, g, a, ReadCall(op, probe.file, g, a))
    /\ UNCHANGED <<world, data, discord, pc, locals, history, cmds, ticks>>

StoreSet ==
    /\ probe.n < MaxCalls
    /\ \E op \in WriteOps, g \in GuildIds :
         \E a \in CallArgs(op) : Called(op, g, a, WriteCall(op, probe.file, g, a))
    /\ UNCHANGED <<world, data, discord, pc, locals, history, cmds, ticks>>

StoreNext == StoreGet \/ StoreSet

StoreSpec == StoreInit /\ [][StoreNext]_vars

\* ------------------------------------------- main.py: the on_ready handlers
MaxReady == 3

\* One process: GUILD_ID (0: unset), the on_ready handlers dispatched so far
\* (each a task of its own, in the order of the events), whether the bot
\* object has the attribute _alert_task, and the poller tasks created.
ReadyProbes ==
    {[guild_id |-> g, handlers |-> <<>>, has_alert_task |-> FALSE, pollers |-> <<>>] :
        g \in {0, Guilds[1]}}

\* hasattr(bot, "_alert_task")
HasAlertTask_Never(b) == FALSE
HasAlertTask(b) == b.has_alert_task

ReadyInit ==
    /\ clock = 0
    /\ data = <<>>
    /\ channels = {ChannelOf(g) : g \in GuildIds}
    /\ voice_channels = [g \in GuildIds |-> EmptyBag]
    /\ events = [g \in GuildIds |-> EmptyBag]
    /\ delivered = [g \in GuildIds |-> EmptyBag]
    /\ pc = "stopped"
    /\ now = 0
    /\ all_matches = <<>>
    /\ gi = 0 /\ mi = 0
    /\ lead = DEFAULT_LEAD_MINUTES
    /\ allow_events = TRUE
    /\ seen = {}
    /\ boot = Flags(data)
    /\ switchSeen = [g \in GuildIds |-> {Switch(data, g)}]
    /\ refused = FALSE
    /\ cmds = 0 /\ ticks = 0
    /\ probe \in ReadyProbes

\* lines 26-43: the gateway reports READY (first connect or reconnect); a
\* handler runs up to its await of bot.tree.sync
OnReadyFires ==
    /\ Len(probe.handlers) < MaxReady
    /\ probe' = [probe EXCEPT !.handlers =
                    Append(@, IF probe.guild_id # 0 THEN "sync_guild" ELSE "sync_global")]
    /\ UNCHANGED <<world, data, discord, pc, locals, history, cmds, ticks>>

\* lines 39-48: a handler's sync returns; it creates the poller task unless
\* the attribute is there
SyncReturns ==
    /\ \E i \in DOMAIN probe.handlers :
         /\ probe.handlers[i] \in {"sync_guild", "sync_global"}
         /\ probe' = IF HasAlertTask(probe)
                     THEN [probe EXCEPT !.handlers[i] = "done"]
                     ELSE [probe EXCEPT !.handlers[i] = "done",
                                        !.has_alert_task = TRUE,
                                        !.pollers = Append(@, "start")]
    /\ UNCHANGED <<world, data, discord, pc, locals, history, cmds, ticks>>

\* lines 39, 43: a handler's sync raises; the handler ends there
SyncRaises ==
    /\ \E i \in DOMAIN probe.handlers :
         /\ probe.handlers[i] \in {"sync_guild", "sync_global"}
         /\ probe' = [probe EXCEPT !.handlers[i] = "raised"]
    /\ UNCHANGED <<world, data, discord, pc, locals, history, cmds, ticks>>

\* alerts.py:113-174: a poller task goes from wait_until_ready into a tick,
\* from a tick to its sleep or (an exception leaves the task) to its end,
\* and from the sleep into the next tick
PollerStep ==
    /\ \E i \in DOMAIN probe.pollers :
         \E to \in {"tick", "sleep", "dead"} :
            /\ \/ probe.pollers[i] \in {"start", "sleep"} /\ to = "tick"
               \/ probe.pollers[i] = "tick" /\ to \in {"sleep", "dead"}
            /\ probe' = [probe EXCEPT !.pollers[i] = to]
    /\ UNCHANGED <<world, data, discord, pc, locals, history, cmds, ticks>>

ReadyNext == OnReadyFires \/ SyncReturns \/ SyncRaises \/ PollerStep

ReadySpec == ReadyInit /\ [][ReadyNext]_vars

\* ------------------------------------------------------------------ claims
\* the match a note of this tick is about
NoteMatch(n) == all_matches[n.mi]
\* the pair's alert_sent flag, read off the document
Flagged(d, g, id) == id \in GetEntry(d, g).alerts_sent
EventFlagged(d, g, id) == id \in GetEntry(d, g).events_created
\* status is not LIVE and 0 < minutes_until_start <= lead
LeadWindow(m, t, l) == m.status # "LIVE" /\ 0 < m.start_time - t /\ m.start_time - t <= l
PairNotes == {n \in seen : n.mi > 0 /\ n.verdict \in {"out", "dup", "send"}}

\* C1: once a pair's alert_sent flag is true it stays true and the pair gets
\* no further alert message; and while the poller runs, the step that posts a
\* pair's alert message is the step that turns its flag from false to true,
\* so repeated ticks post exactly one message per (guild, match id).
C1_AlertOncePerPair ==
    [][\A g \in GuildIds :
         \A id \in Flags(data)[g] \cup BagToSet(delivered'[g]) :
            /\ Flagged(data, g, id) =>
                  /\ Flagged(data', g, id)
                  /\ Count(delivered'[g], id) = Count(delivered[g], id)
            /\ (Count(delivered'[g], id) # Count(delivered[g], id) /\ pc' # "stopped") =>
                  /\ ~Flagged(data, g, id)
                  /\ Flagged(data', g, id)
                  /\ Count(delivered'[g], id) = Count(delivered[g], id) + 1]_vars

\* a second tick met the pair in the window again, found it flagged and
\* passed over it: one message in all
C1_SecondTickSkips ==
    /\ ticks = 2
    /\ \E n \in seen :
         /\ n.verdict = "dup"
         /\ Flagged(data, n.g, NoteMatch(n).id)
         /\ Count(delivered[n.g], NoteMatch(n).id) = 1

\* C2: a pair whose alert_sent flag was true in the store when the poller was
\* stopped between two ticks gets no further alert message, in any later
\* step of any later poller.
C2_NoAlertAfterRestart ==
    [][\A g \in GuildIds : \A id \in boot[g] :
          Count(delivered'[g], id) = Count(delivered[g], id)]_vars

\* a poller started after a stop between two ticks met a pair flagged before
\* the stop, in the window, and passed over it
C2_RestartedTickSkips ==
    /\ pc = "done"
    /\ \E n \in seen :
         /\ n.verdict = "dup"
         /\ NoteMatch(n).id \in boot[n.g]
         /\ Count(delivered[n.g], NoteMatch(n).id) = 1

\* C3: in a tick, every match of every guild whose channel is configured and
\* found is decided by the lead window: it is passed over as out of the
\* window exactly when its status is LIVE or its start is not within
\* 0 < minutes <= lead of the guild; within the window it is alerted unless
\* its flag is already set.
C3_LeadWindowDecides ==
    /\ \A n \in PairNotes :
         /\ (n.verdict # "out") <=> LeadWindow(NoteMatch(n), now, n.lead)
         /\ n.verdict = "dup" => Flagged(data, n.g, NoteMatch(n).id)
    /\ pc = "send" =>
         /\ Note(CurGuild, mi, lead, allow_events, "send") \in seen
         /\ ~Flagged(data, CurGuild, CurMatch.id)
    /\ pc = "done" =>
         \A i \in 1..Len(Guilds) :
            \/ \E n \in seen : n.g = Guilds[i] /\ n.verdict \in {"nochannel", "gone"}
            \/ \A j \in 1..Len(all_matches) : \E n \in PairNotes : n.g = Guilds[i] /\ n.mi = j

\* with a lead of 30 a SCHEDULED match 25 minutes away was alerted
C3_Alerted25MinutesAhead ==
    \E n \in seen :
       /\ n.verdict = "send"
       /\ n.lead = 30
       /\ NoteMatch(n).status = "SCHEDULED"
       /\ NoteMatch(n).start_time - now = 25
       /\ Count(delivered[n.g], NoteMatch(n).id) = 1
       /\ Flagged(data, n.g, NoteMatch(n).id)

\* C4: a match that is LIVE in a tick is passed over in that tick: the poller
\* never sends, flags, or creates a voice channel or an event for it.
C4_LiveIsPassedOver ==
    /\ \A n \in seen : (n.mi > 0 /\ NoteMatch(n).status = "LIVE") => n.verdict = "out"
    /\ pc \in {"send", "create_vc", "create_event", "announce"} => CurMatch.status # "LIVE"

\* a LIVE match whose start is inside the guild's lead window was passed
\* over, and nothing was posted or flagged for it
C4_LiveInsideWindowSkipped ==
    /\ pc = "done"
    /\ \E n \in seen :
         /\ n.mi > 0
         /\ NoteMatch(n).status = "LIVE"
         /\ 0 < NoteMatch(n).start_time - now
         /\ NoteMatch(n).start_time - now <= n.lead
         /\ n.verdict = "out"
         /\ ~Flagged(data, n.g, NoteMatch(n).id)
         /\ Count(delivered[n.g], NoteMatch(n).id) = 0

\* C5: a guild whose event switch has been off all along has no voice
\* channel and no scheduled event made by the poller, and no event_created
\* flag.
C5_EventsOffNoResources ==
    \A g \in GuildIds :
       switchSeen[g] = {FALSE} =>
          /\ voice_channels[g] = EmptyBag
          /\ events[g] = EmptyBag
          /\ GetEntry(data, g).events_created = {}

\* with the switch off all along, a match was alerted and flagged in a first
\* tick and a second tick has run to its end
C5_AlertedWithEventsOff ==
    /\ ticks = 2 /\ pc = "done"
    /\ \E g \in GuildIds :
         /\ switchSeen[g] = {FALSE}
         /\ \E id \in Flags(data)[g] : Count(delivered[g], id) = 1

\* C6: when create_voice_channel or create_scheduled_event is refused, the
\* pair keeps its alert_sent flag and stays without event_created flag and
\* without event, and the tick goes on with the remaining matches and guilds
\* (to the next send, or to the end of the tick and the sleep).
C6_ResourceRefusalContained ==
    [][\A n \in seen' \ seen :
          n.verdict \in {"vc_refused", "event_refused"} =>
             /\ pc' \in {"send", "done"}
             /\ Flagged(data', n.g, all_matches[n.mi].id)
             /\ ~EventFlagged(data', n.g, all_matches[n.mi].id)
             /\ Count(events'[n.g], all_matches[n.mi].id) = 0
             /\ voice_channels' = voice_channels]_vars

\* an event was refused in one guild, and the same tick went on to the next
\* guild and to its end
C6_TickWentOnAfterRefusal ==
    /\ pc = "done"
    /\ \E n \in seen :
         /\ n.verdict = "event_refused"
         /\ Flagged(data, n.g, NoteMatch(n).id)
         /\ ~EventFlagged(data, n.g, NoteMatch(n).id)
         /\ \E n2 \in PairNotes : n2.g # n.g /\ n2.verdict # "out"

\* C7: when the alert send fails (nothing is posted), the pair's flag stays
\* unset, no resource is created, the tick goes on with the remaining
\* matches and guilds, and the poller has not ended.
C7_SendFailureContained ==
    [][(pc = "send" /\ pc' # "stopped" /\ delivered' = delivered) =>
          /\ pc' \in {"send", "done"}
          /\ ~Flagged(data', CurGuild, CurMatch.id)
          /\ voice_channels' = voice_channels
          /\ events' = events]_vars

\* the send of an unflagged pair raised, and the poller task has ended with
\* the tick unfinished
C7_PollerEndedBySend ==
    /\ pc = "dead"
    /\ ~Flagged(data, CurGuild, CurMatch.id)
    /\ Count(delivered[CurGuild], CurMatch.id) = 0

\* C8: at the end of a complete tick, with no Discord call ever refused and
\* the guild's event switch on all along, every pair the tick found in the
\* window has its alert_sent flag, its scheduled event and its event_created
\* flag, whatever was abandoned before.
C8_AbandonedTickRecovers ==
    (pc = "done" /\ ~refused) =>
       \A n \in PairNotes :
          (n.verdict # "out" /\ switchSeen[n.g] = {TRUE}) =>
             /\ Flagged(data, n.g, NoteMatch(n).id)
             /\ EventFlagged(data, n.g, NoteMatch(n).id)
             /\ Count(events[n.g], NoteMatch(n).id) >= 1

\* a complete tick found a pair in the window already flagged, with events
\* on and nothing ever refused, and left it without event
C8_FlaggedWithoutEvent ==
    /\ pc = "done" /\ ~refused
    /\ \E n \in PairNotes :
         /\ n.verdict = "dup"
         /\ switchSeen[n.g] = {TRUE}
         /\ ~EventFlagged(data, n.g, NoteMatch(n).id)
         /\ Count(events[n.g], NoteMatch(n).id) = 0

\* C9: all the polls of one raw record give the same Match.id.
C9_IdStableAcrossPolls ==
    \A i, j \in DOMAIN probe.polls : probe.polls[i].id = probe.polls[j].id

\* one raw record polled at two times gave two ids
C9_TwoIdsForOneRecord ==
    \E i, j \in DOMAIN probe.polls :
       /\ probe.polls[i].t # probe.polls[j].t
       /\ probe.polls[i].id # probe.polls[j].id

\* C10: a guild never has two scheduled events of one match id, nor two
\* voice channels of one name.
C10_AtMostOnce ==
    \A g \in GuildIds :
       /\ \A id \in BagToSet(events[g]) : Count(events[g], id) = 1
       /\ \A name \in BagToSet(voice_channels[g]) : Count(voice_channels[g], name) = 1

\* two matches of one voice channel name each got their event, on the one
\* voice channel: the second one reused it
C10_VoiceChannelReused ==
    \E g \in GuildIds :
       /\ Cardinality(BagToSet(events[g])) = 2
       /\ BagCardinality(voice_channels[g]) = 1

\* C11: a guild whose entry holds no alert channel has no alert message, no
\* voice channel, no scheduled event and no dedupe flag in the store, and the
\* poller is never at a pair of such a guild.
C11_UnconfiguredGuildSkipped ==
    /\ \A g \in GuildIds :
         GetEntry(data, g).alert_channel_id = {} =>
            /\ delivered[g] = EmptyBag
            /\ voice_channels[g] = EmptyBag
            /\ events[g] = EmptyBag
            /\ GetEntry(data, g).alerts_sent = {}
            /\ GetEntry(data, g).events_created = {}
    /\ pc \in {"send", "create_vc", "create_event", "announce"} =>
         GetEntry(data, CurGuild).alert_channel_id # {}

\* a tick alerted a match for a configured guild and ran to its end, having
\* passed over a guild with no channel that has the same lead
C11_SkippedWhileOtherAlerted ==
    /\ pc = "done"
    /\ \E n \in seen, k \in seen :
         /\ k.verdict = "nochannel"
         /\ GetEntry(data, k.g).alert_channel_id = {}
         /\ n.verdict = "send"
         /\ Count(delivered[n.g], NoteMatch(n).id) = 1
         /\ LeadWindow(NoteMatch(n), now, get_lead_minutes(data, k.g, DEFAULT_LEAD_MINUTES))
         /\ delivered[k.g] = EmptyBag

\* provider p failed in call c, or returned no in-scope match
FellThrough(c, p) ==
    \/ c.outs[p] # "records"
    \/ \A i \in DOMAIN CallLists(c, clock, c.limit * 2)[p] :
          CallLists(c, clock, c.limit * 2)[p][i].tournament \notin VCT_TOURNAMENTS
Range(q) == {q[i] : i \in DOMAIN q}
Failing == {"error", "timeout", "undecodable"}

\* C12: the providers called so far are the first ones of the fixed order,
\* each called only after all before it failed or had no in-scope match; a
\* result comes from the last provider called, which is the first with an
\* in-scope match, and is made of its matches only; the built-in dataset
\* serves only after all four were called and fell through.
C12_FallbackOrder ==
    /\ \A i \in DOMAIN probe.queried :
         /\ probe.queried[i] = Providers[i]
         /\ \A j \in 1..(i - 1) : FellThrough(probe, Providers[j])
    /\ probe.served \in ProviderSet =>
         /\ probe.served = probe.queried[Len(probe.queried)]
         /\ ~FellThrough(probe, probe.served)
         /\ Range(Opt(probe.result)) \subseteq
               Range(CallLists(probe, clock, probe.limit * 2)[probe.served])
    /\ probe.served = "mock" =>
         /\ probe.queried = Providers
         /\ \A p \in ProviderSet : FellThrough(probe, p)

\* the third provider served after the first two fell through, and the
\* fourth was not called
C12_ThirdProviderServed ==
    /\ probe.served = "vlrggapi"
    /\ probe.queried = <<"official", "henrikdev", "vlrggapi">>
    /\ probe.outs["vlresports"] = "records"
    /\ probe.result # {}

\* C13: no provider outcome leaves the resolver as an exception; after a
\* provider that failed, the next provider is called (or, after the last
\* one, the built-in dataset is used); until it returns a list, the call is
\* at the block after the last provider called.
C13_FailuresContained ==
    /\ ~probe.raised
    /\ \A i \in DOMAIN probe.queried :
         probe.outs[probe.queried[i]] \in Failing =>
            \/ i < Len(probe.queried)
            \/ probe.served = "mock"
            \/ probe.result = {} /\ probe.k = i + 1
    /\ probe.result = {} => (probe.served = "" /\ probe.k = Len(probe.queried) + 1)

\* all four providers failed, in all three ways, and the call returned a list
C13_AllFailedListReturned ==
    /\ \A p \in ProviderSet : probe.outs[p] \in Failing
    /\ \A o \in Failing : \E p \in ProviderSet : probe.outs[p] = o
    /\ probe.result # {}
    /\ Len(Opt(probe.result)) >= 1

\* C14: in the list returned, no SCHEDULED match comes before a LIVE one,
\* and the matches that are not LIVE are in ascending start_time order.
C14_ResultOrdered ==
    probe.result # {} =>
       LET r == Opt(probe.result)
       IN  \A i, j \in DOMAIN r :
              i < j =>
                 /\ ~(r[i].status # "LIVE" /\ r[j].status = "LIVE")
                 /\ (r[i].status # "LIVE" /\ r[j].status # "LIVE") =>
                       r[i].start_time <= r[j].start_time

\* vlresports served a list with a SCHEDULED match before a LIVE one
C14_ScheduledBeforeLive ==
    /\ probe.served = "vlresports"
    /\ Len(Opt(probe.result)) = 2
    /\ Opt(probe.result)[1].status = "SCHEDULED"
    /\ Opt(probe.result)[2].status = "LIVE"

\* C15: for a limit of at least 1 the list returned has at least one match;
\* when every provider failed or had no in-scope match, it is made of the
\* built-in dataset's matches.
C15_ResultNeverEmpty ==
    (probe.result # {} /\ probe.limit >= 1) =>
       /\ Len(Opt(probe.result)) >= 1
       /\ (\A p \in ProviderSet : FellThrough(probe, p)) =>
             /\ probe.served = "mock"
             /\ \A m \in Range(Opt(probe.result)) : m.id \in {"G2-vs-T1-FAKE", "C9-vs-NRG-FAKE"}

\* every provider returned nothing, and the built-in dataset's two matches
\* were returned
C15_MockServed ==
    /\ \A p \in ProviderSet : probe.outs[p] = "empty"
    /\ probe.served = "mock"
    /\ Len(Opt(probe.result)) = 2

\* the integers set_lead_minutes is tried on in every state
LeadProbes == {-3, 0, 1, 4, 5, 6, 30, 179, 180, 181, 500}

\* C16: every persisted lead_minutes lies in 5..180, and set_lead_minutes
\* of n persists 5 for n below 5, 180 for n above 180 and n otherwise.
C16_LeadClamped ==
    /\ \A g \in GuildIds : GetEntry(data, g).lead_minutes \subseteq 5..180
    /\ \A g \in GuildIds, n \in LeadProbes :
         GetEntry(set_lead_minutes(data, g, n), g).lead_minutes =
            {IF n < 5 THEN 5 ELSE IF n > 180 THEN 180 ELSE n}

\* /vct_settings_lead 500 persisted 180, and a tick alerted with that lead
C16_Lead500Persists180 ==
    \E n \in seen :
       /\ n.verdict = "send"
       /\ n.lead = 180
       /\ GetEntry(data, n.g).lead_minutes = {180}

\* C17: in every step, a pair for which was_alert_sent (was_event_created)
\* returns true keeps it true, and marking again a pair that is marked after
\* the step would leave the document as it is.
C17_FlagsMonotonic ==
    [][\A g \in GuildIds :
         /\ \A id \in GetEntry(data, g).alerts_sent \cup GetEntry(data', g).alerts_sent :
              /\ was_alert_sent(data, g, id) => was_alert_sent(data', g, id)
              /\ was_alert_sent(data', g, id) => mark_alert_sent(data', g, id) = data'
         /\ \A id \in GetEntry(data, g).events_created \cup GetEntry(data', g).events_created :
              /\ was_event_created(data, g, id) => was_event_created(data', g, id)
              /\ was_event_created(data', g, id) => mark_event_created(data', g, id) = data']_vars

\* With the default lead the two real matches cannot be alerted in one tick:
\* a guild's first flag is still there after a later tick's mark_alert_sent
\* and mark_event_created for the other match.
C17_FlagKeptAcrossLaterMarks ==
    \E g \in GuildIds :
       /\ GetEntry(data, g).lead_minutes = {}
       /\ GetEntry(data, g).alerts_sent = {"None", "m1"}
       /\ GetEntry(data, g).events_created = {"None", "m1"}
       /\ was_alert_sent(data, g, "None")

EntryKeys == {"alert_channel_id", "lead_minutes", "event_enabled", "alerts_sent", "events_created"}

\* C18: every step changes at most one key of one guild's entry, so the
\* write of one set operation never takes back what another one wrote,
\* however the commands fall between the poller's awaits.
C18_NoLostUpdate ==
    [][Cardinality({<<g, k>> \in GuildIds \X EntryKeys :
                       GetEntry(data', g)[k] # GetEntry(data, g)[k]}) <= 1]_vars

\* /vct_settings_lead ran while the tick that alerted the pair was under way
\* (the tick read lead 30, the store says 180), the tick has marked the
\* pair, and the document holds both
C18_MarkAndSetLeadBothKept ==
    /\ pc \in {"create_vc", "create_event", "announce"}
    /\ Note(CurGuild, mi, lead, allow_events, "send") \in seen
    /\ lead = 30
    /\ GetEntry(data, CurGuild).lead_minutes = {180}
    /\ CurMatch.id \in GetEntry(data, CurGuild).alerts_sent
    /\ GetEntry(data, CurGuild).alert_channel_id # {}

\* What a get operation returns when nothing is stored for the guild.
UnsetResult(op, a) ==
    CASE op = "get_alert_channel" -> "None"
      [] op \in {"was_alert_sent", "was_event_created"} -> "FALSE"
      [] OTHER -> a

\* C19: a call made while the backing file is absent, is not valid JSON, or
\* is valid JSON of the wrong shape never raises: a get operation returns its
\* unset result and a set operation succeeds and leaves a document behind.
C19_CorruptTreatedAsEmpty ==
    (probe.n > 0 /\ probe.last.before.kind # "dict") =>
        /\ ~probe.last.raised
        /\ probe.last.op \in ReadOps =>
               probe.last.ret = UnsetResult(probe.last.op, probe.last.arg)
        /\ probe.last.op \in WriteOps =>
               (probe.file.kind = "dict" /\ probe.last.g \in DOMAIN probe.file.doc)

\* C19 (the failing case): the poller's first read of the store,
\* get_alert_channel, made on a file that holds a JSON list, raises.
C19_WrongShapeRaises ==
    /\ probe.n > 0
    /\ probe.last.before.kind = "wrongshape"
    /\ probe.last.op = "get_alert_channel"
    /\ probe.last.raised

\* C20: a get operation made on a readable store leaves the file exactly as
\* it was (so it creates no guild entry); get_lead_minutes and
\* is_event_enabled return the caller's default when the guild has no stored
\* value and the stored value otherwise.
C20_ReadsWriteNothing ==
    (probe.n > 0 /\ probe.last.op \in ReadOps /\ ~probe.last.raised) =>
        LET e == GetEntry(_read(probe.last.before).doc, probe.last.g)
        IN  /\ probe.file = probe.last.before
            /\ probe.last.op = "get_lead_minutes" =>
                   probe.last.ret = IF e.lead_minutes = {} THEN probe.last.arg
                                    ELSE ToString(Opt(e.lead_minutes))
            /\ probe.last.op = "is_event_enabled" =>
                   probe.last.ret = IF e.event_enabled = {} THEN probe.last.arg
                                    ELSE ToString(Opt(e.event_enabled))

\* C20 (witness): get_lead_minutes with default 45 on a guild that has no
\* entry, in a document that holds another guild's entry, returned 45 and the
\* guild still has no entry.
C20_DefaultReturnedNoEntry ==
    /\ probe.n > 0
    /\ probe.last.op = "get_lead_minutes"
    /\ probe.last.arg = "45"
    /\ probe.last.ret = "45"
    /\ probe.last.before.kind = "dict"
    /\ probe.last.before.doc # <<>>
    /\ probe.last.g \notin DOMAIN probe.file.doc

\* C21: no provider classifies a label that contains "champions tour" and
\* "americas" as VCT Champions, and a label that no provider rule matches
\* yields no Match.
C21_TourAmericasNotChampions ==
    probe.provider # "" =>
        LET l == probe.raw.label[probe.provider]
        IN  /\ (HasPair(l, "champions", "tour") /\ Has(l, "americas")) =>
                   probe.canon # {"VCT Champions"}
            /\ probe.canon = {} => probe.out = <<>>

\* C21 (the failing case): the official provider was given the label
\* "Champions Tour Americas" and classified it as VCT Champions.
C21_OfficialTakesStageForFinals ==
    /\ probe.provider = "official"
    /\ probe.raw.label["official"] = <<"Champions", "Tour", "Americas">>
    /\ probe.canon = {"VCT Champions"}
    /\ probe.out # <<>>
    /\ probe.out[1].tournament = "VCT Champions"

\* C22: every provider classifies a label that contains "masters" as VCT
\* Masters, whatever else the label contains.
C22_MastersAlwaysMasters ==
    (probe.provider # "" /\ Has(probe.raw.label[probe.provider], "masters")) =>
        probe.canon = {"VCT Masters"}

\* C22 (the failing case): the official provider was given the label
\* "Champions Tour MASTERS" and classified it as VCT Champions.
C22_OfficialMastersAsChampions ==
    /\ probe.provider = "official"
    /\ probe.raw.label["official"] = <<"Champions", "Tour", "MASTERS">>
    /\ probe.canon = {"VCT Champions"}

\* the record has no resolvable start for the provider: the time field is
\* missing or holds no date (for vlresports: the "in" text is empty or holds
\* neither "live" nor a number)
NoStart(c) ==
    IF c.provider = "vlresports" THEN ~c.in.live /\ c.in.tokens = <<>>
    ELSE c.raw.time \notin {"iso", "epoch"}

\* C23: a record with no resolvable start time yields no Match, and the
\* conversion does not raise.
C23_NoStartNoMatch ==
    (probe.provider # "" /\ NoStart(probe)) => (probe.out = <<>> /\ ~probe.raised)

\* C23 (the failing case): vlresports was given an item whose "in" text is
\* "TBD" and made a SCHEDULED match of it that starts now.
C23_TbdStartsNow ==
    /\ probe.provider = "vlresports"
    /\ probe.in.other = "TBD" /\ probe.in.tokens = <<>> /\ ~probe.in.live
    /\ probe.out # <<>>
    /\ probe.out[1].start_time = clock
    /\ probe.out[1].status = "SCHEDULED"

\* the record passes the provider's label and start filters
Accepted(c) == c.canon # {} /\ c.raw.time \in {"iso", "epoch"}

\* C24: for the providers whose records carry a state, a record marked
\* completed or final yields no Match, a record marked live or in progress
\* yields a LIVE Match, and every other accepted record a SCHEDULED one.
C24_StatusClassified ==
    (probe.provider \in {"official", "henrikdev"} /\ Accepted(probe)) =>
        LET st == StateLower(probe.raw.state)
        IN  IF st \in {"completed", "final"} THEN probe.out = <<>>
            ELSE /\ ~probe.raised
                 /\ probe.out # <<>>
                 /\ probe.out[1].status =
                       IF st \in {"live", "inprogress"} THEN "LIVE" ELSE "SCHEDULED"

\* C24 (the failing case): henrikdev was given an accepted item marked LIVE;
\* the conversion raised and made no Match.
C24_HenrikLiveRaises ==
    /\ probe.provider = "henrikdev"
    /\ Accepted(probe)
    /\ StateLower(probe.raw.state) = "live"
    /\ probe.raised
    /\ probe.out = <<>>

\* C25: the list a call of upcoming_vct_matches(limit) returns, from a
\* provider or from the built-in dataset, has at most limit matches, all of
\* them of VCT Americas, VCT Masters or VCT Champions (limit 0 included).
C25_Truncated ==
    probe.result # {} =>
        /\ Len(Opt(probe.result)) <= probe.limit
        /\ \A i \in DOMAIN Opt(probe.result) :
              Opt(probe.result)[i].tournament \in VCT_TOURNAMENTS

\* a provider had two in-scope matches and the call with limit 1 returned
\* the first of them only
C25_TwoCutToOne ==
    /\ probe.limit = 1
    /\ probe.served \in ProviderSet
    /\ Len(CallLists(probe, clock, probe.limit * 2)[probe.served]) = 2
    /\ probe.result # {}
    /\ Len(Opt(probe.result)) = 1

\* C26: a voice channel or a scheduled event is only ever created for the
\* pair whose alert the running tick has just sent and flagged; a pair that
\* a tick finds flagged is passed over, so a pair whose tick made no event
\* never gets one later, whatever the switch or the permissions are then.
C26_EventOnlyInAlertTick ==
    [][\A g \in GuildIds :
          (events'[g] # events[g] \/ voice_channels'[g] # voice_channels[g]) =>
             /\ pc \in {"create_vc", "create_event"}
             /\ g = CurGuild
             /\ Note(g, mi, lead, allow_events, "send") \in seen
             /\ was_alert_sent(data, g, CurMatch.id)
             /\ events'[g] \in {events[g], BagAdd(events[g], CurMatch.id)}
             /\ voice_channels'[g] \in
                   {voice_channels[g], BagAdd(voice_channels[g], VcName(CurMatch))}]_vars

\* a second tick met a pair alerted once, whose event an earlier tick was
\* refused, with the event switch on: it passed the pair over and ended with
\* no voice channel and no event for it
C26_SkippedStaysSkipped ==
    /\ pc = "done" /\ ticks = 2
    /\ refused
    /\ \E n \in seen :
         /\ n.verdict = "dup"
         /\ n.allow /\ Switch(data, n.g)
         /\ Count(delivered[n.g], NoteMatch(n).id) = 1
         /\ Count(events[n.g], NoteMatch(n).id) = 0
         /\ ~BagIn(VcName(NoteMatch(n)), voice_channels[n.g])

\* every match a tick of the model can resolve
KnownMatches ==
    UNION {Range(upcoming_vct_matches(o, f, t, POLL_LIMIT)) :
              o \in OutcomeVectors, f \in FeedVectors, t \in 0..MaxClock}

\* C27: for every guild, events_created is a subset of alerts_sent; every
\* scheduled event and every voice channel that exists belongs to a pair
\* that is flagged as alerted and whose alert message was posted.
C27_EventImpliesAlert ==
    \A g \in GuildIds :
        /\ GetEntry(data, g).events_created \subseteq GetEntry(data, g).alerts_sent
        /\ \A id \in BagToSet(events[g]) :
              id \in GetEntry(data, g).alerts_sent /\ Count(delivered[g], id) >= 1
        /\ \A name \in BagToSet(voice_channels[g]) :
              \E m \in KnownMatches :
                  /\ VcName(m) = name
                  /\ m.id \in GetEntry(data, g).alerts_sent
                  /\ Count(delivered[g], m.id) >= 1

\* a pair has its alert posted and flagged, its voice channel and its event
\* created and flagged
C27_EventAfterAlert ==
    \E g \in GuildIds : \E id \in GetEntry(data, g).events_created :
        /\ id \in GetEntry(data, g).alerts_sent
        /\ Count(delivered[g], id) = 1
        /\ Count(events[g], id) = 1
        /\ voice_channels[g] # EmptyBag

\* the ids of the built-in dataset's matches
MockIds == {_mock_vct_data(0)[i].id : i \in DOMAIN _mock_vct_data(0)}

C30_CreationRespectsSwitch ==
    [][\A g \in GuildIds :
          (events'[g] # events[g] \/ voice_channels'[g] # voice_channels[g]) =>
              is_event_enabled(data, g, TRUE)]_vars

\* C30 (the failing case): the alert was posted, the tick still holds the
\* switch it read on entering the guild (on) while the store says off, and
\* it is awaiting create_voice_channel.
C30_StaleSwitchAtCreation ==
    /\ pc = "create_vc"
    /\ allow_events
    /\ ~is_event_enabled(data, CurGuild, TRUE)
    /\ Count(delivered[CurGuild], CurMatch.id) = 1
    /\ TRUE \in switchSeen[CurGuild]

\* the matches of the tick's list that are in guild g's lead window
InWindow(g) ==
    {i \in DOMAIN all_matches :
        LeadWindow(all_matches[i], now, get_lead_minutes(data, g, DEFAULT_LEAD_MINUTES))}

\* C28: the matches of a resolved list, which differ in teams or start, have
\* pairwise different ids; and a tick that ran to its end with nothing
\* refused has posted, in every guild, one alert for each match in the
\* guild's lead window.
C28_DistinctMatchesOwnAlerts ==
    /\ \A i, j \in DOMAIN all_matches :
          i # j => all_matches[i].id # all_matches[j].id
    /\ (pc = "done" /\ ~refused) =>
          \A g \in GuildIds :
              \A i \in InWindow(g) : Count(delivered[g], all_matches[i].id) = 1
    /\ (pc = "done" /\ ~refused) =>
          \A g \in GuildIds : BagCardinality(delivered[g]) = Cardinality(InWindow(g))

\* C28 (the failing case): the official provider served two matches of
\* different teams whose records carry no match id; both got the id "None",
\* both are in the lead window, and the first tick ended with one alert in
\* the guild, the second match passed over as already alerted.
C28_SecondMatchSuppressed ==
    /\ probe.provider = "official"
    /\ pc = "done" /\ ticks = 1 /\ ~refused
    /\ Len(all_matches) = 2
    /\ all_matches[1].id = "None" /\ all_matches[2].id = "None"
    /\ all_matches[1].team1 # all_matches[2].team1
    /\ \E n \in seen :
         /\ n.verdict = "dup" /\ n.mi = 2
         /\ InWindow(n.g) = {1, 2}
         /\ BagCardinality(delivered[n.g]) = 1

\* C31: however many on_ready handlers have run, at most one poller task
\* has been created, and at most one task is inside a tick.
C31_OnePoller ==
    /\ Len(probe.pollers) <= 1
    /\ Cardinality({i \in DOMAIN probe.pollers : probe.pollers[i] = "tick"}) <= 1
    /\ probe.has_alert_task <=> probe.pollers # <<>>

\* two on_ready handlers ran to their end, a third is still awaiting its
\* sync, and the one poller task is inside a tick
C31_SecondReadyStartsNothing ==
    /\ Cardinality({i \in DOMAIN probe.handlers : probe.handlers[i] = "done"}) >= 2
    /\ \E i \in DOMAIN probe.handlers : probe.handlers[i] \in {"sync_guild", "sync_global"}
    /\ probe.pollers = <<"tick">>

\* the key of the entry a set operation writes
FieldOf(op) ==
    CASE op = "set_alert_channel"  -> "alert_channel_id"
      [] op = "mark_alert_sent"    -> "alerts_sent"
      [] op = "mark_event_created" -> "events_created"
      [] op = "set_lead_minutes"   -> "lead_minutes"
      [] op = "set_event_enabled"  -> "event_enabled"

\* C32: a set or mark operation on guild g, made on a readable store, leaves
\* every other key of g's entry and every other guild's entry as they were
\* (an entry is neither added nor removed for another guild).
C32_WriteFrame ==
    (probe.n > 0 /\ probe.last.op \in WriteOps /\ ~probe.last.raised) =>
        LET before == _read(probe.last.before).doc
            after  == probe.file.doc
        IN  /\ probe.file.kind = "dict"
            /\ DOMAIN after = DOMAIN before \cup {probe.last.g}
            /\ \A h \in DOMAIN after : \A k \in EntryKeys :
                  (h # probe.last.g \/ k # FieldOf(probe.last.op)) =>
                      GetEntry(after, h)[k] = GetEntry(before, h)[k]

\* set_lead_minutes(1, 500) on a document where guild 1 has every key set:
\* the lead went from 60 to 180 and the four other keys are as before
C32_LeadChangedRestKept ==
    /\ probe.n > 0
    /\ probe.last.op = "set_lead_minutes" /\ probe.last.g = 1 /\ probe.last.arg = "500"
    /\ probe.last.before.kind = "dict"
    /\ 1 \in DOMAIN probe.last.before.doc
    /\ probe.last.before.doc[1].lead_minutes = {60}
    /\ probe.file.doc[1].lead_minutes = {180}
    /\ probe.file.doc[1].alert_channel_id = {10}
    /\ probe.file.doc[1].alerts_sent = {"m1"}
    /\ probe.file.doc[1].events_created = {"m1"}
    /\ probe.file.doc[1].event_enabled = {FALSE}

====
